---- MODULE Spec2Model ----
(***************************************************************************)
(* Bharat Samarth agriculture Q&A (src/app.py): the load-time cleanup of   *)
(* the crop and rainfall frames, the regex planner plan_query and the      *)
(* executor/synthesizer execute_and_answer.                                *)
(*                                                                         *)
(* Text is a sequence of one-character strings.  Quantities of            *)
(* production are fixed-point tenths of a tonne, rainfall is in whole mm.  *)
(* An absent value (NaN / NULL / None) is the empty tuple, a present one    *)
(* the one-element tuple of its value.                                     *)
(***************************************************************************)
EXTENDS Integers, Sequences, FiniteSets, TLC

\* ------------------------------------------------------------------------
\* Bounds of the model
\* ------------------------------------------------------------------------
MaxCropRows == 3
MaxRainRows == 3
MaxN == 3
MaxGap == 2
MaxFewRows == 1

\* ------------------------------------------------------------------------
\* Characters and str methods
\* ------------------------------------------------------------------------
LowerAlpha == <<"a","b","c","d","e","f","g","h","i","j","k","l","m",
                "n","o","p","q","r","s","t","u","v","w","x","y","z">>
UpperAlpha == <<"A","B","C","D","E","F","G","H","I","J","K","L","M",
                "N","O","P","Q","R","S","T","U","V","W","X","Y","Z">>

LowerLetters == {LowerAlpha[i] : i \in 1..26}
UpperLetters == {UpperAlpha[i] : i \in 1..26}
DigitSeq == <<"0","1","2","3","4","5","6","7","8","9">>

\* \s, \d, \w and the name class [\w\s&.-] of the three templates
SpaceCls == {" ", "\t", "\n"}
DigitCls == {DigitSeq[i] : i \in 1..10}
WordCls == LowerLetters \cup UpperLetters \cup DigitCls \cup {"_"}
NameCls == WordCls \cup SpaceCls \cup {"&", ".", "-"}

LowerChar(c) ==
    IF c \in UpperLetters
    THEN LowerAlpha[CHOOSE i \in 1..26 : UpperAlpha[i] = c]
    ELSE c

UpperChar(c) ==
    IF c \in LowerLetters
    THEN UpperAlpha[CHOOSE i \in 1..26 : LowerAlpha[i] = c]
    ELSE c

Lower_missing(s) == s

\* str.lower()
Lower(s) == [i \in 1..Len(s) |-> LowerChar(s[i])]

\* str.upper()
Upper(s) == [i \in 1..Len(s) |-> UpperChar(s[i])]

IsCased(c) == c \in LowerLetters \cup UpperLetters

\* str.title(): a cased character is upper-cased when the character before
\* it is not cased, lower-cased otherwise.
Title(s) ==
    [i \in 1..Len(s) |->
        IF IsCased(s[i])
        THEN IF i > 1 /\ IsCased(s[i-1]) THEN LowerChar(s[i]) ELSE UpperChar(s[i])
        ELSE s[i]]

\* str.strip()
Strip(s) ==
    LET keep == {i \in 1..Len(s) : s[i] \notin SpaceCls}
    IN  IF keep = {} THEN <<>>
        ELSE LET lo == CHOOSE i \in keep : \A j \in keep : i <= j
                 hi == CHOOSE i \in keep : \A j \in keep : i >= j
             IN  SubSeq(s, lo, hi)

\* norm_text(s) = str(s).strip()
norm_text(s) == Strip(s)

RECURSIVE ReplaceQuote(_)
ReplaceQuote(s) ==
    IF s = <<>> THEN <<>>
    ELSE (IF Head(s) = "'" THEN <<"'", "'">> ELSE <<Head(s)>>) \o ReplaceQuote(Tail(s))

\* safe_like(s) = s.replace("'", "''")
safe_like(s) == ReplaceQuote(s)

\* int() of a string of decimal digits
DigitVal(c) == (CHOOSE i \in 1..10 : DigitSeq[i] = c) - 1

RECURSIVE ParseInt(_)
ParseInt(s) ==
    IF s = <<>> THEN 0
    ELSE 10 * ParseInt(SubSeq(s, 1, Len(s) - 1)) + DigitVal(s[Len(s)])

\* ------------------------------------------------------------------------
\* re.search for patterns that are a sequence of items followed by `$`.
\* An item is a literal word, or a greedy `+` of a character class; grp is
\* the number of the capturing group around the item (0: none).
\* ------------------------------------------------------------------------
Lit(w) == <<[plus |-> FALSE, word |-> w, cls |-> {}, grp |-> 0]>>
SPlus == <<[plus |-> TRUE, word |-> <<>>, cls |-> SpaceCls, grp |-> 0]>>
DGroup(g) == <<[plus |-> TRUE, word |-> <<>>, cls |-> DigitCls, grp |-> g]>>
NameGroup(g) == <<[plus |-> TRUE, word |-> <<>>, cls |-> NameCls, grp |-> g]>>

NoMatch == [ok |-> FALSE, spans |-> <<>>]

\* `$` matches at the end of the string and just before a final newline
AtEnd(s, pos) == pos = Len(s) + 1 \/ (pos = Len(s) /\ s[pos] = "\n")

\* the length of the longest run of characters of cls that starts at pos
RunLen(cls, s, pos) ==
    LET stops == {j \in pos..Len(s) : s[j] \notin cls}
    IN  IF stops = {} THEN Len(s) + 1 - pos
        ELSE (CHOOSE j \in stops : \A k \in stops : j <= k) - pos

HasWord(w, s, pos) ==
    /\ pos + Len(w) - 1 <= Len(s)
    /\ \A j \in 1..Len(w) : s[pos + j - 1] = w[j]

\* The match of items i.. of pat at position pos.  A greedy `+` takes the
\* longest run with which the rest of the pattern matches (the backtracking
\* matcher tries the lengths from the longest down and stops at the first).
RECURSIVE MatchFrom(_, _, _, _)
MatchFrom(pat, s, i, pos) ==
    IF i > Len(pat)
    THEN IF AtEnd(s, pos) THEN [ok |-> TRUE, spans |-> <<>>] ELSE NoMatch
    ELSE IF pat[i].plus
    THEN LET run == RunLen(pat[i].cls, s, pos)
             tries == {[k |-> k, r |-> MatchFrom(pat, s, i + 1, pos + k)] : k \in 1..run}
             good == {t \in tries : t.r.ok}
         IN  IF good = {} THEN NoMatch
             ELSE LET best == CHOOSE x \in good : \A y \in good : x.k >= y.k
                  IN  [ok |-> TRUE,
                       spans |-> <<<<pos, pos + best.k - 1>>>> \o best.r.spans]
    ELSE IF HasWord(pat[i].word, s, pos)
    THEN LET r == MatchFrom(pat, s, i + 1, pos + Len(pat[i].word))
         IN  IF r.ok
             THEN [ok |-> TRUE,
                   spans |-> <<<<pos, pos + Len(pat[i].word) - 1>>>> \o r.spans]
             ELSE NoMatch
    ELSE NoMatch

\* re.search(pat, s): the match at the leftmost position that has one
re_search(pat, s) ==
    LET tries == {[p |-> p, r |-> MatchFrom(pat, s, 1, p)] : p \in 1..(Len(s) + 1)}
        good == {t \in tries : t.r.ok}
    IN  IF good = {} THEN NoMatch
        ELSE (CHOOSE x \in good : \A y \in good : x.p <= y.p).r

\* m.groups()[g-1]
Group(pat, s, m, g) ==
    LET i == CHOOSE j \in 1..Len(pat) : pat[j].grp = g
    IN  SubSeq(s, m.spans[i][1], m.spans[i][2])

\* ------------------------------------------------------------------------
\* The three templates of plan_query
\* ------------------------------------------------------------------------
W_top == <<"t","o","p">>
W_crops == <<"c","r","o","p","s">>
W_in == <<"i","n">>
W_trend == <<"t","r","e","n","d">>
W_of == <<"o","f">>
W_over == <<"o","v","e","r">>
W_last == <<"l","a","s","t">>
W_years == <<"y","e","a","r","s">>
W_compare == <<"c","o","m","p","a","r","e">>
W_rainfall == <<"r","a","i","n","f","a","l","l">>
W_between == <<"b","e","t","w","e","e","n">>
W_and == <<"a","n","d">>
W_for == <<"f","o","r">>

\* r"top\s+(\d+)\s+crops\s+in\s+([\w\s&.-]+)$"
TopPattern ==
    Lit(W_top) \o SPlus \o DGroup(1) \o SPlus \o Lit(W_crops) \o SPlus
    \o Lit(W_in) \o SPlus \o NameGroup(2)

TrendPattern_for_last ==
    Lit(W_trend) \o SPlus \o Lit(W_of) \o SPlus \o NameGroup(1) \o SPlus
    \o Lit(W_in) \o SPlus \o NameGroup(3) \o SPlus \o Lit(W_for) \o SPlus
    \o Lit(W_last) \o SPlus \o DGroup(2) \o SPlus \o Lit(W_years)

\* r"trend\s+of\s+([\w\s&.-]+)\s+over\s+last\s+(\d+)\s+years\s+in\s+([\w\s&.-]+)$"
TrendPattern ==
    Lit(W_trend) \o SPlus \o Lit(W_of) \o SPlus \o NameGroup(1) \o SPlus
    \o Lit(W_over) \o SPlus \o Lit(W_last) \o SPlus \o DGroup(2) \o SPlus
    \o Lit(W_years) \o SPlus \o Lit(W_in) \o SPlus \o NameGroup(3)

\* r"compare\s+rainfall\s+between\s+([\w\s&.-]+)\s+and\s+([\w\s&.-]+)$"
ComparePattern ==
    Lit(W_compare) \o SPlus \o Lit(W_rainfall) \o SPlus \o Lit(W_between)
    \o SPlus \o NameGroup(1) \o SPlus \o Lit(W_and) \o SPlus \o NameGroup(2)

\* ------------------------------------------------------------------------
\* Raw parquet contents and the load-time cleanup (lines 55-75)
\* ------------------------------------------------------------------------
None == <<>>
Some(v) == <<v>>
IsNone(o) == o = <<>>
Val(o) == o[1]

N_goa == <<"g","o","a">>
N_tamil == <<"t","a","m","i","l">>
N_nadu == <<"n","a","d","u">>
N_rice == <<"r","i","c","e">>
N_ragi == <<"r","a","g","i">>
T_Goa == <<"G","o","a">>
T_GOA == <<"G","O","A">>
T_GoaPadded == <<" ","G","o","a"," ">>
T_TamilNadu == <<"T","a","m","i","l"," ","N","a","d","u">>
T_Rice == <<"R","i","c","e">>
T_Ragi == <<"R","a","g","i">>

\* rows the crop parquet file may hold: production_mt in tenths of a tonne
CropPool ==
    { [state |-> T_Goa, district |-> "N", crop |-> T_Rice,
       production_mt |-> Some(20), year |-> Some(2020)],
      [state |-> T_Goa, district |-> "N", crop |-> T_Rice,
       production_mt |-> Some(15), year |-> Some(2021)],
      [state |-> T_GOA, district |-> "S", crop |-> T_Rice,
       production_mt |-> Some(10), year |-> Some(2022)],
      [state |-> T_GoaPadded, district |-> "N", crop |-> T_Ragi,
       production_mt |-> Some(25), year |-> Some(2022)],
      [state |-> T_Goa, district |-> "S", crop |-> T_Ragi,
       production_mt |-> None, year |-> Some(2021)],
      [state |-> T_TamilNadu, district |-> "N", crop |-> T_Rice,
       production_mt |-> Some(20), year |-> Some(2023)],
      [state |-> T_Goa, district |-> "E", crop |-> T_Rice,
       production_mt |-> Some(30), year |-> None] }

\* rows the rainfall parquet file may hold: annual in mm
RainPool ==
    { [state |-> T_Goa, station |-> "a", annual |-> Some(4), year |-> Some(2020)],
      [state |-> T_Goa, station |-> "a", annual |-> Some(3), year |-> Some(2021)],
      [state |-> T_GOA, station |-> "a", annual |-> Some(5), year |-> Some(2022)],
      [state |-> T_GoaPadded, station |-> "b", annual |-> Some(3), year |-> Some(2022)],
      [state |-> T_TamilNadu, station |-> "a", annual |-> None, year |-> Some(2024)],
      [state |-> T_Goa, station |-> "d", annual |-> Some(4), year |-> None] }

\* the files with at most n rows of a pool
Frames(pool, n) == {f \in SUBSET pool : Cardinality(f) <= n}

\* lines 63-67 and 74: norm_text on state and crop, rows without a year dropped
CleanCrop(raw) ==
    { [state |-> norm_text(r.state), district |-> r.district,
       crop |-> norm_text(r.crop), production_mt |-> r.production_mt,
       year |-> Val(r.year)] : r \in {x \in raw : ~IsNone(x.year)} }

\* lines 69-71 and 75
CleanRain(raw) ==
    { [state |-> norm_text(r.state), station |-> r.station,
       annual |-> r.annual, year |-> Val(r.year)] :
       r \in {x \in raw : ~IsNone(x.year)} }

\* ------------------------------------------------------------------------
\* Text typed into the input box (line 222)
\* ------------------------------------------------------------------------
Spaces(k) == [i \in 1..k |-> " "]

RECURSIVE JoinWords(_, _)
JoinWords(ws, k) ==
    IF ws = <<>> THEN <<>>
    ELSE IF Len(ws) = 1 THEN ws[1]
    ELSE ws[1] \o Spaces(k) \o JoinWords(Tail(ws), k)

\* a question is a sequence of parts; a part is a sequence of words
\* (a keyword or a number is a one-word part, a name may have several words)
Styles ==
    { s \in [up : BOOLEAN, gap : 1..MaxGap, inner : 1..MaxGap, pad : 0..1] :
        Cardinality({f \in {"up", "gap", "inner", "pad"} :
                        s[f] # [up |-> FALSE, gap |-> 1, inner |-> 1, pad |-> 0][f]}) <= 1 }

QText(parts, st) ==
    LET body == JoinWords([i \in 1..Len(parts) |-> JoinWords(parts[i], st.inner)], st.gap)
        cased == IF st.up THEN Upper(body) ELSE body
    IN  Spaces(st.pad) \o cased \o Spaces(st.pad)

NumStr(n) == <<DigitSeq[n + 1]>>
K(w) == <<w>>

StateNames == {<<N_goa>>, <<N_tamil, N_nadu>>}
CropNames == {<<N_rice>>, <<<<"r">>>>}

TopBase(n, st) == <<K(W_top), K(NumStr(n)), K(W_crops), K(W_in), st>>

TrendBase(c, n, st) ==
    <<K(W_trend), K(W_of), c, K(W_over), K(W_last), K(NumStr(n)), K(W_years),
      K(W_in), st>>

CompareBase(a, b) == <<K(W_compare), K(W_rainfall), K(W_between), a, K(W_and), b>>

RainTrendBase(st, n) ==
    <<K(W_trend), K(W_of), K(W_rainfall), K(W_in), st, K(W_for), K(W_last),
      K(NumStr(n)), K(W_years)>>

TopQuestions == {TopBase(n, st) : n \in 0..MaxN, st \in StateNames}

TrendQuestions ==
    {TrendBase(c, n, st) : c \in CropNames, n \in 0..MaxN, st \in {<<N_goa>>}}

CompareQuestions == {CompareBase(a, b) : a \in StateNames, b \in {<<N_goa>>}}

RainTrendQuestions == {RainTrendBase(st, n) : st \in StateNames, n \in 1..MaxN}

\* texts of no template: nothing, a word, a top question without its number,
\* one whose number is not a number, and a trend question without its window
OtherQuestions ==
    { <<>>,
      <<K(<<"a","s","d","f">>)>>,
      <<K(W_top), K(W_crops), K(W_in), <<N_goa>>>>,
      <<K(W_top), K(<<"x">>), K(W_crops), K(W_in), <<N_goa>>>>,
      <<K(W_trend), K(W_of), <<N_rice>>, K(W_in), <<N_goa>>>> }

BaseQuestions ==
    TopQuestions \cup TrendQuestions \cup CompareQuestions
    \cup RainTrendQuestions \cup OtherQuestions

Questions == {QText(b, st) : b \in BaseQuestions, st \in Styles}

\* every way of writing a question with its text, and the ways a text is
\* written
Texts == {<<QText(p[1], p[2]), p[1], p[2]>> : p \in BaseQuestions \X Styles}

Text(b, st) == (CHOOSE x \in Texts : x[2] = b /\ x[3] = st)[1]

Written(t) == {<<x[2], x[3]>> : x \in {y \in Texts : y[1] = t}}

\* ------------------------------------------------------------------------
\* plan_query (lines 101-170)
\* ------------------------------------------------------------------------
\* the three re.search calls in their order; the groups of the first match
Recognize(qq) ==
    LET ql == Strip(Lower(qq))
        mt == re_search(TopPattern, ql)
        mr == re_search(TrendPattern, ql)
        mc == re_search(ComparePattern, ql)
    IN  IF mt.ok
        THEN [template |-> "top",
              groups |-> <<Group(TopPattern, ql, mt, 1), Group(TopPattern, ql, mt, 2)>>]
        ELSE IF mr.ok
        THEN [template |-> "trend",
              groups |-> <<Group(TrendPattern, ql, mr, 1), Group(TrendPattern, ql, mr, 2),
                           Group(TrendPattern, ql, mr, 3)>>]
        ELSE IF mc.ok
        THEN [template |-> "compare",
              groups |-> <<Group(ComparePattern, ql, mc, 1),
                           Group(ComparePattern, ql, mc, 2)>>]
        ELSE [template |-> "none", groups |-> <<>>]

\* the matches of every text the model types, computed once
Recognized == {<<t, Recognize(t)>> : t \in Questions}

MaxOf(S) == CHOOSE x \in S : \A y \in S : x >= y

max_year_candidates_crop_only(cdf, rdf) ==
    IF cdf # {} THEN {MaxOf({r.year : r \in cdf})} ELSE {}

max_year_candidates_default(cdf, rdf) ==
    IF cdf = {} /\ rdf = {} THEN {0}
    ELSE (IF cdf # {} THEN {MaxOf({r.year : r \in cdf})} ELSE {})
         \cup (IF rdf # {} THEN {MaxOf({r.year : r \in rdf})} ELSE {})

\* lines 126-130: the maxima of the year columns that are not empty
max_year_candidates(cdf, rdf) ==
    (IF cdf # {} THEN {MaxOf({r.year : r \in cdf})} ELSE {})
    \cup (IF rdf # {} THEN {MaxOf({r.year : r \in rdf})} ELSE {})

UnknownPlan_typo == [intent |-> "unkown"]

\* lines 132 and 170
UnknownPlan == [intent |-> "unknown"]

plan_query(qq, cdf, rdf) ==
    LET m == (CHOOSE x \in Recognized : x[1] = qq)[2]
        g == m.groups
    IN  IF m.template = "top"
        THEN LET n == ParseInt(g[1])
                 state_like == safe_like(Lower(Strip(g[2])))
             IN  [intent |-> "top_crops",
                  sql |-> [from |-> "crop", state_like |-> state_like, limit |-> n],
                  n |-> n, state |-> Title(Strip(g[2]))]
        ELSE IF m.template = "trend"
        THEN LET n == ParseInt(g[2])
                 cands == max_year_candidates(cdf, rdf)
             IN  IF cands = {} THEN UnknownPlan
                 ELSE LET max_year == MaxOf(cands)
                          min_year == max_year - n + 1
                          crop_like == safe_like(Lower(Strip(g[1])))
                          state_like == safe_like(Lower(Strip(g[3])))
                      IN  [intent |-> "trend",
                           crop |-> Title(Strip(g[1])), state |-> Title(Strip(g[3])),
                           years |-> <<min_year, max_year>>,
                           sql_prod |-> [from |-> "crop", crop_like |-> crop_like,
                                         state_like |-> state_like,
                                         min_year |-> min_year, max_year |-> max_year],
                           sql_rain |-> [from |-> "rain", state_like |-> state_like,
                                         min_year |-> min_year, max_year |-> max_year]]
        ELSE IF m.template = "compare"
        THEN LET s1l == safe_like(Lower(Strip(g[1])))
                 s2l == safe_like(Lower(Strip(g[2])))
             IN  [intent |-> "compare_rain",
                  sql |-> [from |-> "rain", states_like |-> <<s1l, s2l>>],
                  s1 |-> Title(Strip(g[1])), s2 |-> Title(Strip(g[2]))]
        ELSE UnknownPlan

\* ------------------------------------------------------------------------
\* The queries as DuckDB runs them on the registered frames
\* ------------------------------------------------------------------------
\* the value of the SQL string literal '<lit>': a doubled quote is one quote
RECURSIVE SqlText(_)
SqlText(lit) ==
    IF lit = <<>> THEN <<>>
    ELSE IF Len(lit) >= 2 /\ lit[1] = "'" /\ lit[2] = "'"
    THEN <<"'">> \o SqlText(SubSeq(lit, 3, Len(lit)))
    ELSE <<Head(lit)>> \o SqlText(Tail(lit))

\* hay LIKE '%needle%': `_` in the needle stands for any one character
SqlLike(hay, needle) ==
    \E start \in 1..(Len(hay) - Len(needle) + 1) :
        \A j \in 1..Len(needle) :
            needle[j] = "_" \/ needle[j] = hay[start + j - 1]

RECURSIVE SumProduction(_)
SumProduction(rows) ==
    IF rows = {} THEN 0
    ELSE LET r == CHOOSE x \in rows : TRUE
         IN  Val(r.production_mt) + SumProduction(rows \ {r})

RECURSIVE SumAnnual(_)
SumAnnual(rows) ==
    IF rows = {} THEN 0
    ELSE LET r == CHOOSE x \in rows : TRUE
         IN  Val(r.annual) + SumAnnual(rows \ {r})

\* SUM(production_mt): NULL when no row of the group has a value
SUM_production(rows) ==
    LET present == {r \in rows : ~IsNone(r.production_mt)}
    IN  IF present = {} THEN None ELSE Some(SumProduction(present))

\* AVG(annual) as the fraction <<sum, count>> of the rows that have a value
AVG_annual(rows) ==
    LET present == {r \in rows : ~IsNone(r.annual)}
    IN  IF present = {} THEN None
        ELSE Some(<<SumAnnual(present), Cardinality(present)>>)

RECURSIVE Ascending(_)
Ascending(S) ==
    IF S = {} THEN <<>>
    ELSE LET m == CHOOSE x \in S : \A y \in S : x <= y
         IN  <<m>> \o Ascending(S \ {m})

Orderings(S) ==
    {o \in [1..Cardinality(S) -> S] : \A i, j \in 1..Cardinality(S) : i # j => o[i] # o[j]}

DescOrder_ascending(a, b, nullsFirst) ==
    IF IsNone(a) THEN nullsFirst \/ IsNone(b)
    ELSE IF IsNone(b) THEN ~nullsFirst
    ELSE Val(a) <= Val(b)

\* ORDER BY ... DESC: a NULL sorts first or last depending on the DuckDB
\* version's default null order
DescOrder(a, b, nullsFirst) ==
    IF IsNone(a) THEN nullsFirst \/ IsNone(b)
    ELSE IF IsNone(b) THEN ~nullsFirst
    ELSE Val(a) >= Val(b)

Min2(a, b) == IF a <= b THEN a ELSE b

\* the tables the top_crops query (lines 110-117) can return: the order of
\* crops with equal totals is not determined by the query
TopCropsTables(sql, cdf) ==
    LET rows == {r \in cdf : Lower(r.state) = SqlText(sql.state_like)}
        crops == {r.crop : r \in rows}
        total(c) == SUM_production({r \in rows : r.crop = c})
        k == Cardinality(crops)
        sorted == {o \in Orderings(crops) :
                     \E nullsFirst \in BOOLEAN :
                        \A i, j \in 1..k :
                           i < j => DescOrder(total(o[i]), total(o[j]), nullsFirst)}
    IN  { [i \in 1..Min2(k, sql.limit) |->
              [crop |-> o[i], total_prod |-> total(o[i])]] : o \in sorted }

\* the production series (lines 139-146)
ProdSeries(sql, cdf) ==
    LET rows == {r \in cdf :
                    /\ SqlLike(Lower(r.crop), SqlText(sql.crop_like))
                    /\ Lower(r.state) = SqlText(sql.state_like)
                    /\ sql.min_year <= r.year /\ r.year <= sql.max_year}
        years == Ascending({r.year : r \in rows})
    IN  [i \in 1..Len(years) |->
            [year |-> years[i],
             total_prod |-> SUM_production({r \in rows : r.year = years[i]})]]

\* the rainfall series (lines 147-153)
RainSeries(sql, rdf) ==
    LET rows == {r \in rdf :
                    /\ Lower(r.state) = SqlText(sql.state_like)
                    /\ sql.min_year <= r.year /\ r.year <= sql.max_year}
        years == Ascending({r.year : r \in rows})
    IN  [i \in 1..Len(years) |->
            [year |-> years[i],
             avg_rain |-> AVG_annual({r \in rows : r.year = years[i]})]]

\* the tables the compare query (lines 162-167) can return: GROUP BY state
\* without ORDER BY
CompareTables(sql, rdf) ==
    LET wanted == {SqlText(sql.states_like[1]), SqlText(sql.states_like[2])}
        rows == {r \in rdf : Lower(r.state) \in wanted}
        states == {r.state : r \in rows}
    IN  { [i \in 1..Cardinality(states) |->
              [state |-> o[i],
               avg_rain |-> AVG_annual({r \in rows : r.state = o[i]})]] :
          o \in Orderings(states) }

\* ------------------------------------------------------------------------
\* execute_and_answer (lines 175-211)
\* ------------------------------------------------------------------------
RECURSIVE SumSeq(_)
SumSeq(xs) == IF xs = <<>> THEN 0 ELSE Head(xs) + SumSeq(Tail(xs))

RECURSIVE ProdSeq(_)
ProdSeq(xs) == IF xs = <<>> THEN 1 ELSE Head(xs) * ProdSeq(Tail(xs))

RECURSIVE GCD(_, _)
GCD(a, b) == IF b = 0 THEN a ELSE GCD(b, a % b)

RECURSIVE merge_inner(_, _)
merge_inner(dfp, dfr) ==
    IF dfp = <<>> THEN <<>>
    ELSE LET l == Head(dfp)
             SameYear(r) == r.year = l.year
             hits == SelectSeq(dfr, SameYear)
         IN  [j \in 1..Len(hits) |->
                 [year |-> l.year, total_prod |-> l.total_prod,
                  avg_rain |-> hits[j].avg_rain]]
             \o merge_inner(Tail(dfp), dfr)

\* dfp.merge(dfr, on="year", how="left"): every row of dfp in its order, with
\* each row of dfr of the same year, or with an absent avg_rain when none
RECURSIVE merge_left(_, _)
merge_left(dfp, dfr) ==
    IF dfp = <<>> THEN <<>>
    ELSE LET l == Head(dfp)
             SameYear(r) == r.year = l.year
             hits == SelectSeq(dfr, SameYear)
             out == IF hits = <<>>
                    THEN <<[year |-> l.year, total_prod |-> l.total_prod,
                            avg_rain |-> None]>>
                    ELSE [j \in 1..Len(hits) |->
                            [year |-> l.year, total_prod |-> l.total_prod,
                             avg_rain |-> hits[j].avg_rain]]
         IN  out \o merge_left(Tail(dfp), dfr)

\* round(r, 2) in hundredths, for r >= 0 with r * r = num / den
RoundHundredths(num, den) ==
    LET g == GCD(num, den)
        n == num \div g
        d == den \div g
        near == {k \in 0..100 :
                    /\ (k = 0 \/ (2 * k - 1) * (2 * k - 1) * d <= 40000 * n)
                    /\ 40000 * n <= (2 * k + 1) * (2 * k + 1) * d}
    IN  IF Cardinality(near) = 1 THEN CHOOSE k \in near : TRUE
        ELSE CHOOSE k \in near : k % 2 = 0

corrcoef_zero_fill(n, c, vx, vy) ==
    IF n < 1 THEN None
    ELSE IF vx = 0 \/ vy = 0 THEN Some(0)
    ELSE IF c < 0 THEN Some(0 - RoundHundredths(c * c, vx * vy))
    ELSE Some(RoundHundredths(c * c, vx * vy))

\* np.corrcoef(a, b)[0, 1] of n >= min_periods rows, from the sums of the
\* deviations: 0/0 is NaN (None) for a single row and for a column without
\* variance; the coefficient is rounded to hundredths by round(.., 2)
corrcoef(n, c, vx, vy) ==
    IF n < 1 THEN None
    ELSE IF vx = 0 \/ vy = 0 THEN None
    ELSE IF c < 0 THEN Some(0 - RoundHundredths(c * c, vx * vy))
    ELSE Some(RoundHundredths(c * c, vx * vy))

BothPresent(r) == ~IsNone(r.total_prod) /\ ~IsNone(r.avg_rain)

\* merged["total_prod"].corr(merged["avg_rain"]) followed by round(.., 2):
\* pandas keeps the rows where both values are present (min_periods = 1) and
\* takes np.corrcoef of them, which is NaN for a single row and for a column
\* without variance.  None is NaN.
corr(merged) ==
    LET valid == SelectSeq(merged, BothPresent)
        n == Len(valid)
        scale == ProdSeq([i \in 1..n |-> Val(valid[i].avg_rain)[2]])
        x == [i \in 1..n |-> Val(valid[i].total_prod)]
        y == [i \in 1..n |->
                Val(valid[i].avg_rain)[1] * (scale \div Val(valid[i].avg_rain)[2])]
        dx == [i \in 1..n |-> n * x[i] - SumSeq(x)]
        dy == [i \in 1..n |-> n * y[i] - SumSeq(y)]
        c == SumSeq([i \in 1..n |-> dx[i] * dy[i]])
        vx == SumSeq([i \in 1..n |-> dx[i] * dx[i]])
        vy == SumSeq([i \in 1..n |-> dy[i] * dy[i]])
    IN  corrcoef(n, c, vx, vy)

\* round(avg, 1) in tenths (half to even); NaN stays NaN
Round1(avg) ==
    IF IsNone(avg) THEN None
    ELSE LET num == 10 * Val(avg)[1]
             den == Val(avg)[2]
             lo == num \div den
             rem == num - lo * den
         IN  IF 2 * rem < den THEN Some(lo)
             ELSE IF 2 * rem > den THEN Some(lo + 1)
             ELSE IF lo % 2 = 0 THEN Some(lo) ELSE Some(lo + 1)

\* int(r['total_prod']) of a total in tenths; int(NaN) raises ValueError
TonnesInt(total) == Val(total) \div 10

HelpNarrative == [tag |-> "help"]
Raised == [status |-> "raised", error |-> "ValueError"]

Answered(narrative, has_table, table) ==
    [status |-> "ok", narrative |-> narrative, has_table |-> has_table, table |-> table]

\* the outcomes of execute_and_answer(plan): the answer and the queries that
\* were run on con
execute_and_answer(plan, cdf, rdf) ==
    IF plan.intent = "unknown"
    THEN {[answer |-> Answered(HelpNarrative, FALSE, <<>>), queries |-> <<>>]}
    ELSE IF plan.intent = "top_crops"
    THEN { [answer |->
              IF df = <<>>
              THEN Answered([tag |-> "no_crop_data", state |-> plan.state], TRUE, df)
              ELSE IF \E i \in 1..Len(df) : IsNone(df[i].total_prod)
              THEN Raised
              ELSE Answered([tag |-> "top_crops", n |-> plan.n, state |-> plan.state,
                             lines |-> [i \in 1..Len(df) |->
                                          <<df[i].crop, TonnesInt(df[i].total_prod)>>]],
                            TRUE, df),
            queries |-> <<plan.sql>>] : df \in TopCropsTables(plan.sql, cdf) }
    ELSE IF plan.intent = "trend"
    THEN LET dfp == ProdSeries(plan.sql_prod, cdf)
             dfr == RainSeries(plan.sql_rain, rdf)
             merged == merge_left(dfp, dfr)
             corr_txt == IF merged # <<>> THEN corr(merged) ELSE None
         IN  {[answer |->
                 Answered([tag |-> "trend", crop |-> plan.crop, state |-> plan.state,
                           years |-> plan.years, corr_txt |-> corr_txt,
                           no_overlap_note |-> (merged = <<>>)],
                          TRUE, merged),
               queries |-> <<plan.sql_prod, plan.sql_rain>>]}
    ELSE IF plan.intent = "compare_rain"
    THEN { [answer |->
              IF df = <<>>
              THEN Answered([tag |-> "no_rain_data"], TRUE, df)
              ELSE Answered([tag |-> "compare_rain", s1 |-> plan.s1, s2 |-> plan.s2,
                             lines |-> [i \in 1..Len(df) |->
                                          <<df[i].state, Round1(df[i].avg_rain)>>]],
                            TRUE, df),
            queries |-> <<plan.sql>>] : df \in CompareTables(plan.sql, rdf) }
    ELSE {[answer |-> Answered([tag |-> "something_went_wrong"], FALSE, <<>>),
           queries |-> <<>>]}

\* ------------------------------------------------------------------------
\* One run of the script: load, then the question typed into the input box
\* (lines 222-229)
\* ------------------------------------------------------------------------
VARIABLES crop_df, rain_df, q, plan, answer, queries, pc
vars == <<crop_df, rain_df, q, plan, answer, queries, pc>>

NoPlan == [intent |-> "none"]
NoAnswer == [status |-> "none"]

\* lines 55-92: the two files are read and cleaned, nothing is asked yet
Load(crops, rains) ==
    /\ \E raw \in Frames(CropPool, crops) : crop_df = CleanCrop(raw)
    /\ \E raw \in Frames(RainPool, rains) : rain_df = CleanRain(raw)
    /\ q = <<>>
    /\ plan = NoPlan
    /\ answer = NoAnswer
    /\ queries = <<>>
    /\ pc = "input"

Init == Load(MaxCropRows, MaxRainRows)

\* small files, for the properties of the planner's reading of the text
InitFew == Load(MaxFewRows, MaxFewRows)

\* lines 222-225: a non-empty text is planned
Ask(text) ==
    /\ pc = "input"
    /\ text # <<>>
    /\ q' = text
    /\ plan' = plan_query(text, crop_df, rain_df)
    /\ pc' = "planned"
    /\ UNCHANGED <<crop_df, rain_df, answer, queries>>

\* line 226
Execute ==
    /\ pc = "planned"
    /\ \E o \in execute_and_answer(plan, crop_df, rain_df) :
          /\ answer' = o.answer
          /\ queries' = o.queries
    /\ pc' = "answered"
    /\ UNCHANGED <<crop_df, rain_df, q, plan>>

\* the next input reruns the script on the same files
Rerun ==
    /\ pc = "answered"
    /\ q' = <<>>
    /\ plan' = NoPlan
    /\ answer' = NoAnswer
    /\ queries' = <<>>
    /\ pc' = "input"
    /\ UNCHANGED <<crop_df, rain_df>>

Next ==
    \/ \E text \in Questions : Ask(text)
    \/ Execute
    \/ Rerun

Spec == Init /\ [][Next]_vars

SpecFew == InitFew /\ [][Next]_vars

\* ------------------------------------------------------------------------
\* Properties
\* ------------------------------------------------------------------------
Planned == pc \in {"planned", "answered"}
AnsweredOk == pc = "answered" /\ answer.status = "ok"

\* the rows of a frame whose state is `want` case-insensitively
StateRows(df, want) == {r \in df : Lower(r.state) = want}

HasSubstring(hay, needle) ==
    \E start \in 1..(Len(hay) - Len(needle) + 1) :
        \A j \in 1..Len(needle) : needle[j] = hay[start + j - 1]

AllYears == {r.year : r \in crop_df} \cup {r.year : r \in rain_df}

\* the texts of the top questions with N >= 1, with N and the state as written
TopWants == {JoinWords(sn, k) : sn \in StateNames, k \in 1..MaxGap}

TopTexts ==
    {<<QText(TopBase(n, sn), st), n, JoinWords(sn, st.inner)>> :
        n \in 1..MaxN, sn \in StateNames, st \in Styles}

\* the texts of the trend questions about Goa with N >= 1, with crop and N
TrendTexts ==
    {<<QText(TrendBase(c, n, <<N_goa>>), st), c, n>> :
        c \in CropNames, n \in 1..MaxN, st \in Styles}

RainTrendTexts == {QText(b, st) : b \in RainTrendQuestions, st \in Styles}

OtherTexts == {QText(b, st) : b \in OtherQuestions, st \in Styles}

\* the texts of the top and trend questions with N = 0
ZeroTexts ==
    {QText(TopBase(0, sn), st) : sn \in StateNames, st \in Styles}
    \cup {QText(TrendBase(c, 0, <<N_goa>>), st) : c \in CropNames, st \in Styles}

\* C1: the table of a "top N crops in <state>" question with N >= 1 has at
\* most N rows, non-increasing totals, one row per crop, and each total is the
\* sum of the production of the rows of that crop whose state equals the
\* requested state case-insensitively.
C1_TopCropsTable ==
    AnsweredOk =>
        \A n \in 1..MaxN, want \in TopWants :
            <<q, n, want>> \in TopTexts =>
                LET t == answer.table
                    rows == StateRows(crop_df, want)
                IN  /\ plan.intent = "top_crops"
                    /\ answer.has_table
                    /\ Len(t) <= n
                    /\ \A i, j \in 1..Len(t) :
                          i < j => /\ Val(t[i].total_prod) >= Val(t[j].total_prod)
                                   /\ t[i].crop # t[j].crop
                    /\ \A i \in 1..Len(t) :
                          /\ \E r \in rows : r.crop = t[i].crop
                          /\ t[i].total_prod =
                                SUM_production({r \in rows : r.crop = t[i].crop})

\* a top-1 answer about a state with two crops of different totals
C1_Witness ==
    /\ AnsweredOk
    /\ plan.intent = "top_crops"
    /\ plan.n = 1
    /\ Len(answer.table) = 1
    /\ \E r \in StateRows(crop_df, N_goa) :
          /\ r.crop # answer.table[1].crop
          /\ ~IsNone(r.production_mt)
          /\ Val(r.production_mt) < Val(answer.table[1].total_prod)

C3_UnknownHelp ==
    /\ (Planned /\ q \in OtherTexts) =>
          /\ plan.intent = "unknown"
          /\ pc = "answered" =>
                /\ answer = Answered(HelpNarrative, FALSE, <<>>)
                /\ queries = <<>>
    /\ pc = "input" =>
          /\ plan_query(<<>>, crop_df, rain_df).intent = "unknown"
          /\ execute_and_answer(plan_query(<<>>, crop_df, rain_df), crop_df, rain_df)
                = {[answer |-> Answered(HelpNarrative, FALSE, <<>>), queries |-> <<>>]}

\* a blank text answered over a store that has rows
C3_Witness ==
    /\ pc = "answered"
    /\ q = <<" ", " ">>
    /\ crop_df # {}
    /\ rain_df # {}

\* C4: the window of a trend question ends at the largest year of both
\* relations together and is N years long, and both queries carry the same
\* state and the same year range.
C4_TrendWindow ==
    (Planned /\ AllYears # {}) =>
        \A c \in CropNames, n \in 1..MaxN :
            <<q, c, n>> \in TrendTexts =>
                LET max_year == MaxOf(AllYears)
                    want == [state_like |-> N_goa,
                             min_year |-> max_year - n + 1, max_year |-> max_year]
                IN  /\ plan.intent = "trend"
                    /\ plan.years = <<max_year - n + 1, max_year>>
                    /\ \A f \in {"state_like", "min_year", "max_year"} :
                          /\ plan.sql_prod[f] = want[f]
                          /\ plan.sql_rain[f] = want[f]
                    /\ pc = "answered" => queries = <<plan.sql_prod, plan.sql_rain>>

\* a trend plan whose window ends at a year only the rainfall relation has
C4_Witness ==
    /\ pc = "planned"
    /\ plan.intent = "trend"
    /\ crop_df # {}
    /\ rain_df # {}
    /\ plan.years[2] > MaxOf({r.year : r \in crop_df})
    /\ plan.years[1] < plan.years[2]

C6_ZeroIsNoMatch ==
    (Planned /\ q \in ZeroTexts) => plan.intent = "unknown"

\* the years inside the window of the production rows and of the rainfall
\* rows a trend question about Goa is about
TrendYears(c, n) ==
    LET max_year == MaxOf(AllYears)
        window == (max_year - n + 1)..max_year
    IN  [prod |-> {r.year : r \in {x \in StateRows(crop_df, N_goa) :
                                      /\ HasSubstring(Lower(x.crop), JoinWords(c, 1))
                                      /\ x.year \in window}},
         rain |-> {r.year : r \in {x \in StateRows(rain_df, N_goa) :
                                      x.year \in window}},
         window |-> window]

TableYears(t) == {t[i].year : i \in 1..Len(t)}

\* C7 as claimed: the joined table of a trend question has strictly
\* ascending years inside the window; a year of the production series without
\* rainfall is a row with an absent rainfall, a year of the rainfall series
\* without production is a row with an absent production; an empty table
\* carries the note.
C7_JoinBothSides ==
    (AnsweredOk /\ AllYears # {}) =>
        \A c \in CropNames, n \in 1..MaxN :
            <<q, c, n>> \in TrendTexts =>
                LET t == answer.table
                    ys == TrendYears(c, n)
                IN  /\ \A i, j \in 1..Len(t) : i < j => t[i].year < t[j].year
                    /\ TableYears(t) \subseteq ys.window
                    /\ \A i \in 1..Len(t) :
                          /\ t[i].year \in ys.prod \ ys.rain => IsNone(t[i].avg_rain)
                          /\ t[i].year \in ys.rain \ ys.prod => IsNone(t[i].total_prod)
                    /\ ys.prod \cup ys.rain \subseteq TableYears(t)
                    /\ t = <<>> => answer.narrative.no_overlap_note

\* C7 as amended: the rows are exactly the years of the production series; a
\* year of the rainfall series without production is not in the table.
C7_JoinLeft ==
    (AnsweredOk /\ AllYears # {}) =>
        \A c \in CropNames, n \in 1..MaxN :
            <<q, c, n>> \in TrendTexts =>
                LET t == answer.table
                    ys == TrendYears(c, n)
                IN  /\ \A i, j \in 1..Len(t) : i < j => t[i].year < t[j].year
                    /\ TableYears(t) \subseteq ys.window
                    /\ TableYears(t) = ys.prod
                    /\ \A i \in 1..Len(t) :
                          t[i].year \notin ys.rain => IsNone(t[i].avg_rain)
                    /\ t = <<>> => answer.narrative.no_overlap_note

\* a joined table with a production-only year while the rainfall series has a
\* year the production series lacks
C7_Witness ==
    /\ AnsweredOk
    /\ plan.intent = "trend"
    /\ plan.sql_prod.state_like = N_goa
    /\ \E i \in 1..Len(answer.table) :
          /\ IsNone(answer.table[i].avg_rain)
          /\ \A r \in rain_df : r.year # answer.table[i].year
    /\ \E r \in StateRows(rain_df, N_goa) :
          /\ plan.years[1] <= r.year /\ r.year <= plan.years[2]
          /\ r.year \notin TableYears(answer.table)

\* C8 as claimed: two texts that differ only in letter case and in the amount
\* of whitespace (also inside a state or crop name) have the same plan.
C8_CaseAndAnyWhitespace ==
    pc = "planned" =>
        \A p \in Written(q), st \in Styles :
            plan_query(Text(p[1], st), crop_df, rain_df) = plan

\* C8 as amended: two texts that differ only in letter case and in the amount
\* of whitespace before, after and between the words of the template and its
\* parameters, with the same whitespace inside each state or crop name, have
\* the same plan.
C8_CaseAndTemplateWhitespace ==
    pc = "planned" =>
        \A p \in Written(q), st \in Styles :
            st.inner = p[2].inner =>
                plan_query(Text(p[1], st), crop_df, rain_df) = plan

\* an upper-case top question about a two-word state, planned
C8_Witness ==
    /\ pc = "planned"
    /\ plan.intent = "top_crops"
    /\ plan.state = <<"T", "a", "m", "i", "l", " ", "N", "a", "d", "u">>
    /\ q = Upper(q)

\* the rows of a joined table with both values, and equality of two averages
BothRows(t) == {i \in 1..Len(t) : ~IsNone(t[i].total_prod) /\ ~IsNone(t[i].avg_rain)}

SameAvg(a, b) == Val(a)[1] * Val(b)[2] = Val(b)[1] * Val(a)[2]

C10_TopCropsNeverRaises ==
    (pc = "answered" /\ plan.intent = "top_crops") => answer.status = "ok"

====
